---- MODULE Spec2Model ----
(***************************************************************************)
(* Model of MLDataCollector (src/src/tradingview_screener/ml_collector.py): *)
(* collect_once, schedule_collection, collect_batch and                    *)
(* load_historical_data, with the output directory, the wall clock and the *)
(* remote scanner as environment.                                          *)
(*                                                                         *)
(* One client thread calls the collector's methods one after another.  A   *)
(* method is modelled statement group by statement group, so that an       *)
(* exception or a KeyboardInterrupt can be observed between them.          *)
(***************************************************************************)
EXTENDS Integers, Sequences, FiniteSets, TLC

(* ---------------------------- bounds ---------------------------------- *)
\* largest finite max_collections the client passes; also the number of
\* tables a run with max_collections=None collects before the scanner only
\* fails (keeps collected_data finite)
MaxCollections == 2
\* largest max_retries the client passes
MaxRetriesArg == 1
\* the history counters nExec / nTicks stop counting here
MaxCount == 3
\* the clock's horizon, in ticks: later instants are not told apart
MaxClock == 3
\* clock ticks per second: the clock is finer than the snapshot names
TicksPerSecond == 2
\* a timestamp string has two fields of this many values each
Radix == 2

(* ------------------------ program constants --------------------------- *)
\* time.sleep(30) before a retry
RetrySleepSeconds == 30
\* interval_minutes * 60
SecondsPerMinute == 60
\* max_collections=None (run forever); finite values are 0..MaxCollections;
\* also start_date=None, end_date=None
None == 0 - 2
\* "import pandas as pd" stands under "if TYPE_CHECKING:" only (lines
\* 18-19): when the methods run, the module has no global named pd
PandasBound == FALSE

Formats == {"parquet", "sqlite", "feather"}
\* timestamp_format: the default, whose strings sort as the instants do,
\* and a day-first format, whose strings do not
DefaultTimestampFormat == "%Y%m%d_%H%M%S"
TimestampFormats == {DefaultTimestampFormat, "%d%m%Y_%H%M%S"}
\* mutant: 'feather' is written like the others
SupportedFormats_Feather == {"csv", "parquet", "sqlite", "feather"}
SupportedFormats == {"csv", "parquet", "sqlite"}
OnErrorPolicies == {"stop", "continue", "retry"}
DatasetNames == {"eq", "fx-us"}
IntervalMinutes == {0, 1}
\* ticks a scanner round trip takes
Latencies == {0, 1}
\* rows the scanner returns
RowCounts == {1}
\* tables handed to _validate_dataframe have 0..MaxRows rows, or ManyRows
MaxRows == 3
\* universe setters called on one Query
MaxCalls == 3
ManyRows == 10001
\* what query.get_scanner_data raises when the request fails: a failure of
\* the transport, or an answer that cannot be parsed
ScannerErrors == {"TransportError", "MalformedResponseError"}
\* callbacks the client may pass: pure transformations "f" and "g", "boom"
\* which raises, and "part", a functools.partial (a callable without
\* __name__) whose function raises
CallbackLists == {<< >>, <<"f", "boom", "g">>, <<"part">>}
\* the dictionaries collect_batch is called with, as their key order
QueryMaps == {<< >>, <<"eq">>, <<"eq", "fx-us">>, <<"fx-us", "eq">>}

\* a table: its number of rows, per data column the number of null cells
\* and of distinct non-null values, the number of rows that repeat an
\* earlier row, the metadata columns' values and the callbacks applied
NoTable == [rows |-> 0 - 1, cols |-> << >>, dups |-> 0, meta |-> << >>,
            cbs |-> << >>]
\* what the scanner answers with r rows: one column, no nulls, no repeats
Scanned(r) ==
    [rows |-> r, cols |-> <<[nulls |-> 0, distinct |-> r]>>, dups |-> 0,
     meta |-> << >>, cbs |-> << >>]

VARIABLES
    \* collector configuration, fixed by __init__
    format, timestamp_format, add_collection_metadata, validate_data,
    \* environment
    now,            \* wall clock, in ticks
    disk,           \* output directory: set of [name, table] snapshots
    \* client
    op,             \* method in progress: "idle", "once", "sched", "batch"
    called,         \* the client has made its call
    outcome,        \* how the collecting call ended: "none", "returned",
                    \* "raised"
    error,          \* the exception in flight / raised to the caller
    \* collect_once frame
    cpc, dataset_name, save, callbacks, collection_time, df,
    \* schedule_collection frame
    spc, max_collections, on_error, max_retries, interval_minutes,
    collected_data, collection_count, retry_count, success,
    \* collect_batch frame
    bpc, queries, q_i, results,
    \* load_historical_data frame
    lpc, load_dataset, start_date, end_date, combine, files, dataframes,
    loaded,         \* what load_historical_data gave its caller
    \* history (not program state)
    call_start,     \* clock when the current collect_once was called
    validated,      \* the table _validate_dataframe was given
    issues,         \* the findings it logged
    saved_name,     \* the snapshot name the current collect_once wrote
    disk_before,    \* disk when the current collect_once was called
    nExec,          \* collect_once calls made by the current method
    nSaves,         \* saves completed for the schedule_collection in progress
    nTicks,         \* outer-loop iterations started by schedule_collection
    tickExec,       \* collect_once calls made in the current tick
    interrupted,    \* KeyboardInterrupt was delivered to this run
    batch_failed,   \* dataset names logged at "Failed to collect"
    read_log,       \* snapshot names load_historical_data tried to read
    read_errors,    \* snapshot names logged at "Failed to load"
    \* the Query a client builds
    universe,       \* its instrument universe: a market or a ticker list
    universe_calls, \* the universe setters called on it, in call order
    \* MultiAssetScanner.scan_all_markets frame
    timeframe, include_stocks, include_crypto,
    mpc,            \* the market being scanned, or idle / ret / exc
    kpc,            \* the position inside scan_symbols
    tf,             \* scan_symbols' local tf
    scan_columns,   \* the columns scan_symbols selects
    market_results, \* scan_all_markets' results dict
    \* live_scanner_app.py: one browser session
    apc,            \* the script's position, or waiting for the user
    clicked,        \* 'Run Scan Now' was pressed and not yet served
    checkbox,       \* the 'Enable auto-scan' checkbox as the user left it
    auto_scan_enabled, scan_data, scan_history,     \* st.session_state
    \* history (not program state)
    nElapsed,       \* refresh intervals slept through with auto-scan on
    nClicks         \* presses of 'Run Scan Now'

cfgVars == <<format, timestamp_format, add_collection_metadata,
             validate_data>>
envVars == <<now, disk>>
clientVars == <<op, called, outcome, error>>
onceVars == <<cpc, dataset_name, save, callbacks, collection_time, df>>
schedParams == <<max_collections, on_error, max_retries, interval_minutes>>
schedVars == <<spc, collected_data, collection_count, retry_count, success>>
batchVars == <<bpc, queries, q_i, results>>
loadVars == <<lpc, load_dataset, start_date, end_date, combine, files,
              dataframes, loaded, read_log, read_errors>>
onceHist == <<call_start, validated, issues, saved_name, disk_before>>
schedHist == <<nTicks, tickExec, interrupted, nSaves>>
queryVars == <<universe, universe_calls>>
scanVars == <<timeframe, include_stocks, include_crypto, mpc, kpc, tf,
              scan_columns, market_results>>
liveVars == <<apc, clicked, checkbox, auto_scan_enabled, scan_data,
              scan_history, nElapsed, nClicks>>
\* what the collector's methods never touch
appVars == <<queryVars, scanVars, liveVars>>
vars == <<cfgVars, envVars, clientVars, onceVars, schedParams, schedVars,
          batchVars, loadVars, onceHist, schedHist, nExec, batch_failed,
          appVars>>

(* ----------------------------- helpers -------------------------------- *)
Min(a, b) == IF a < b THEN a ELSE b
\* a history counter that stops at MaxCount
Count(n) == Min(n + 1, MaxCount)
\* the clock after d more ticks
Elapse(t, d) == Min(t + d, MaxClock)

\* timestamp.strftime(fmt): the string carries whole seconds only, as two
\* fields; the default format writes the more significant field first, the
\* day-first format the less significant one
strftime(t, fmt) ==
    LET s == t \div TicksPerSecond
        hi == (s \div Radix) % Radix
        lo == s % Radix
    IN IF fmt = DefaultTimestampFormat THEN <<hi, lo>> ELSE <<lo, hi>>
\* datetime.strptime(ts_str, fmt): the instant, or None where strptime
\* raises ValueError (the string does not match the format)
strptime(str, fmt) ==
    IF Len(str) # 2 THEN None
    ELSE IF fmt = DefaultTimestampFormat
         THEN (str[1] * Radix + str[2]) * TicksPerSecond
         ELSE (str[2] * Radix + str[1]) * TicksPerSecond
\* the file (csv, parquet) or table (sqlite) a snapshot is written to:
\* f"{dataset_name}_{timestamp_str}"
SnapshotName(name, t) == <<name, strftime(t, timestamp_format)>>

\* mutant: one collection more than asked for
LoopCond_OffByOne(mc, cc) == mc = None \/ cc <= mc
\* while max_collections is None or collection_count < max_collections
LoopCond(mc, cc) == mc = None \/ cc < mc
\* mutant: a tick goes on attempting after it succeeded
InnerCond_IgnoreSuccess(ok, rc, mr) == rc <= mr
\* while not success and retry_count <= max_retries
InnerCond(ok, rc, mr) == ~ok /\ rc <= mr
\* mutant: one retry too many
ShouldRetry_OffByOne(oe, rc, mr) == oe = "retry" /\ rc <= mr + 1
\* elif on_error == 'retry' and retry_count <= max_retries
ShouldRetry(oe, rc, mr) == oe = "retry" /\ rc <= mr

\* mutant: the epoch column is not in whole seconds
Stamp_Ticks(t, name) == <<t, t, name>>
\* collection_timestamp, collection_unix, dataset_name columns
Stamp(t, name) == <<t, t \div TicksPerSecond, name>>

\* df.to_csv / df.to_parquet / df.to_sql(..., if_exists='replace'): the
\* snapshot of that name is created or replaced
\* mutant: the write starts from an empty store
Write_Truncate(d, n, t) == {[name |-> n, table |-> t]}
Write(d, n, t) == {x \in d : x.name # n} \cup {[name |-> n, table |-> t]}
Names(d) == {x.name : x \in d}

\* line 293: the sqlite store a snapshot of this dataset goes to,
\* f"{dataset_name}.db"
StorePath(name) == <<name, "db">>
\* line 296: .replace('-', '_').replace(':', '_') on the dataset names used
\* here (the timestamp strings of both formats hold digits and "_" only)
Sanitized(name) == IF name = "fx-us" THEN "fx_us" ELSE name
\* line 296: the table a snapshot is written to in its store
TableName(n) == <<Sanitized(n[1]), n[2]>>

\* mutant: the callbacks' results are stacked in reverse
Apply_Reversed(t, cb) == [t EXCEPT !.cbs = <<cb>> \o @]
\* df = callback(df) for a callback that returns
Apply(t, cb) == [t EXCEPT !.cbs = Append(@, cb)]
\* callback(df) raises
Raises(cb) == cb \in {"boom", "part"}
\* callback.__name__ raises AttributeError
Nameless(cb) == cb = "part"

\* Query(): constructed empty, no universe chosen
NoUniverse == [market |-> "none", tickers |-> << >>]
\* mutant: the market set before stays in effect next to the tickers
set_tickers_KeepMarket(u, ts) == [u EXCEPT !.tickers = ts]
\* Query.set_tickers(*tickers): the universe is this ticker list
set_tickers(u, ts) == [market |-> "none", tickers |-> ts]
\* Query.set_markets(market): the universe is this market
set_markets(u, m) == [market |-> m, tickers |-> << >>]

NotLoaded == [kind |-> "none", parts |-> << >>, error |-> "none"]

\* the frames of schedule_collection, collect_batch and
\* load_historical_data before any call
FramesIdle ==
    /\ now = 0
    /\ spc = "idle" /\ max_collections = 0 /\ on_error = "continue"
    /\ max_retries = 0 /\ interval_minutes = 0
    /\ collected_data = << >> /\ collection_count = 0
    /\ retry_count = 0 /\ success = FALSE
    /\ bpc = "idle" /\ queries = << >> /\ q_i = 1 /\ results = {}
    /\ nExec = 0 /\ nTicks = 0 /\ tickExec = 0 /\ interrupted = FALSE
    /\ nSaves = 0
    /\ batch_failed = << >>
    /\ lpc = "idle" /\ load_dataset = "eq" /\ start_date = None
    /\ end_date = None /\ combine = TRUE /\ files = << >>
    /\ dataframes = << >> /\ loaded = NotLoaded
    /\ read_log = << >> /\ read_errors = << >>
    /\ universe = NoUniverse /\ universe_calls = << >>
    /\ timeframe = << >> /\ include_stocks = FALSE
    /\ include_crypto = FALSE /\ mpc = "idle" /\ kpc = "idle"
    /\ tf = << >> /\ scan_columns = << >> /\ market_results = << >>
    /\ apc = "button" /\ clicked = FALSE /\ checkbox = FALSE
    /\ auto_scan_enabled = FALSE /\ scan_data = NoTable
    /\ scan_history = << >> /\ nElapsed = 0 /\ nClicks = 0

\* no method has been called yet
Idle ==
    /\ op = "idle" /\ called = FALSE /\ outcome = "none" /\ error = "none"
    /\ cpc = "idle" /\ dataset_name = "eq" /\ save = FALSE
    /\ callbacks = << >> /\ collection_time = 0 /\ df = NoTable
    /\ call_start = 0 /\ validated = NoTable /\ issues = {}
    /\ saved_name = << >>
    /\ disk_before = {}
    /\ FramesIdle

\* a collector with the default timestamp_format on an empty directory
Init ==
    /\ format \in Formats
    /\ timestamp_format = DefaultTimestampFormat
    /\ add_collection_metadata \in BOOLEAN
    /\ validate_data \in BOOLEAN
    /\ disk = {}
    /\ Idle

(* ------------------------ _validate_dataframe ------------------------- *)
\* missing_pct > 50
HighMissingPct == 50
\* .round(2): the percentage keeps two decimals, 1 / PctUnits percent
PctUnits == 100

\* mutant: the metadata columns are not looked at
Columns_DataOnly(t) == t.cols
\* all columns of a table: the data columns and, when stamped, the three
\* metadata columns, which hold one value in every row
Columns(t) ==
    t.cols \o (IF t.meta = << >> THEN << >>
               ELSE LET c == [nulls |-> 0, distinct |-> Min(t.rows, 1)]
                    IN <<c, c, c>>)

\* line 314: (nulls / len(df) * 100).round(2), in units of 1 / PctUnits
\* percent, rounded to the nearest unit; NaN (here None) for no rows
missing_pct(c, rows) ==
    IF rows = 0 THEN None
    ELSE (2 * c.nulls * 100 * PctUnits + rows) \div (2 * rows)

\* lines 305-335: the issues logged for a table
validate_dataframe(t) ==
    LET cs == Columns(t)
        I == 1..Len(cs)
    IN (IF t.rows = 0 \/ cs = << >> THEN {"empty"} ELSE {})
       \cup (IF \E i \in I : /\ missing_pct(cs[i], t.rows) # None
                             /\ missing_pct(cs[i], t.rows)
                                    > HighMissingPct * PctUnits
             THEN {"high_missing"} ELSE {})
       \cup (IF t.dups > 0 THEN {"duplicates"} ELSE {})
       \cup (IF \E i \in I : cs[i].distinct <= 1
             THEN {"constant"} ELSE {})

(* --------------------------- collect_once ----------------------------- *)
\* the call itself and lines 124-125: collection_time = datetime.now()
EnterCollectOnce(name, sv, cbs) ==
    /\ cpc' = "query"
    /\ dataset_name' = name /\ save' = sv /\ callbacks' = cbs
    /\ collection_time' = now
    /\ df' = NoTable
    /\ call_start' = now /\ validated' = NoTable /\ issues' = {}
    /\ saved_name' = << >>
    /\ disk_before' = disk
    /\ nExec' = Count(nExec)

\* collect_once is left: its locals are gone
LeaveCollectOnce ==
    /\ cpc' = "idle" /\ df' = NoTable /\ collection_time' = 0
    /\ call_start' = 0 /\ validated' = NoTable /\ issues' = {}
    /\ saved_name' = << >>
    /\ disk_before' = {}

\* the scanner answers only while the run's list has room (see MaxCollections)
ScannerMayAnswer == op = "sched" => Len(collected_data) < MaxCollections

\* lines 136-139: the metadata columns, when configured
AddMetadata(t) ==
    IF add_collection_metadata
    THEN [t EXCEPT !.meta = Stamp(collection_time, dataset_name)]
    ELSE t

\* lines 128-130 and 135-139: query.get_scanner_data returns a table
QueryOk ==
    /\ cpc = "query" /\ ScannerMayAnswer
    /\ \E d \in Latencies, r \in RowCounts :
        /\ now' = Elapse(now, d)
        /\ df' = AddMetadata(Scanned(r))
    /\ cpc' = "callbacks"
    /\ UNCHANGED <<cfgVars, appVars, loadVars, disk, clientVars, dataset_name, save, callbacks,
                   collection_time, schedParams, schedVars, batchVars,
                   onceHist, schedHist, nExec, batch_failed>>

\* lines 131-133: it raises; the error is logged and re-raised
QueryFails ==
    /\ cpc = "query"
    /\ \E d \in Latencies : now' = Elapse(now, d)
    /\ cpc' = "exc" /\ error' \in ScannerErrors
    /\ UNCHANGED <<cfgVars, appVars, loadVars, disk, op, called, outcome, dataset_name, save,
                   callbacks, collection_time, df, schedParams,
                   schedVars, batchVars, onceHist, schedHist, nExec,
                   batch_failed>>

\* lines 143-148, one callback: the table after it, and whether the
\* exception escapes (both log lines read callback.__name__)
CallbackStep(t, cb) ==
    [df |-> IF Raises(cb) THEN t ELSE Apply(t, cb), escapes |-> Nameless(cb)]

\* lines 142-148: the loop over callbacks[i..], stopping where an
\* exception escapes
RECURSIVE RunCallbacks(_, _, _)
RunCallbacks(t, cbs, i) ==
    IF i > Len(cbs) THEN [df |-> t, escapes |-> FALSE]
    ELSE LET r == CallbackStep(t, cbs[i]) IN
         IF r.escapes THEN r ELSE RunCallbacks(r.df, cbs, i + 1)

\* lines 141-148
ApplyCallbacks ==
    /\ cpc = "callbacks"
    /\ LET r == RunCallbacks(df, callbacks, 1) IN
        /\ df' = r.df
        /\ IF r.escapes
           THEN cpc' = "exc" /\ error' = "AttributeError"
           ELSE cpc' = "validate" /\ error' = error
    /\ UNCHANGED <<cfgVars, appVars, loadVars, envVars, op, called, outcome, dataset_name, save,
                   callbacks, collection_time, schedParams, schedVars,
                   batchVars, onceHist, schedHist, nExec, batch_failed>>

\* mutant: a table with findings is refused
Validate_Fatal ==
    /\ cpc = "validate"
    /\ validated' = IF validate_data THEN df ELSE validated
    /\ issues' = IF validate_data THEN validate_dataframe(df) ELSE issues
    /\ cpc' = IF issues' = {} THEN "save" ELSE "exc"
    /\ UNCHANGED <<cfgVars, appVars, loadVars, envVars, clientVars, dataset_name, save,
                   callbacks, collection_time, df, schedParams,
                   schedVars, batchVars, call_start, saved_name, disk_before,
                   schedHist, nExec, batch_failed>>
\* lines 151-152: _validate_dataframe(df, dataset_name) inspects df
Validate ==
    /\ cpc = "validate"
    /\ validated' = IF validate_data THEN df ELSE validated
    /\ issues' = IF validate_data THEN validate_dataframe(df) ELSE issues
    /\ cpc' = "save"
    /\ UNCHANGED <<cfgVars, appVars, loadVars, envVars, clientVars, dataset_name, save,
                   callbacks, collection_time, df, schedParams,
                   schedVars, batchVars, call_start, saved_name, disk_before,
                   schedHist, nExec, batch_failed>>

\* mutant: the snapshot is written although save is False
SkipSave_Writes ==
    /\ cpc = "save" /\ ~save
    /\ disk' = Write(disk, SnapshotName(dataset_name, collection_time), df)
    /\ cpc' = "ret"
    /\ UNCHANGED <<cfgVars, appVars, loadVars, now, clientVars, dataset_name, save,
                   callbacks, collection_time, df, schedParams,
                   schedVars, batchVars, onceHist, schedHist, nExec,
                   batch_failed>>
\* lines 155-159 with save=False: return df
SkipSave ==
    /\ cpc = "save" /\ ~save
    /\ cpc' = "ret"
    /\ UNCHANGED <<cfgVars, appVars, loadVars, envVars, clientVars, dataset_name, save,
                   callbacks, collection_time, df, schedParams,
                   schedVars, batchVars, onceHist, schedHist, nExec,
                   batch_failed>>

\* lines 155-159 and _save_data (281-303) writing the snapshot
SaveOk ==
    /\ cpc = "save" /\ save /\ format \in SupportedFormats
    /\ disk' = Write(disk, SnapshotName(dataset_name, collection_time), df)
    /\ saved_name' = SnapshotName(dataset_name, collection_time)
    /\ nSaves' = IF op = "sched" THEN nSaves + 1 ELSE nSaves
    /\ cpc' = "ret"
    /\ UNCHANGED <<cfgVars, appVars, loadVars, now, clientVars, dataset_name, save, callbacks,
                   collection_time, df, schedParams, schedVars,
                   batchVars, call_start, validated, issues, disk_before,
                   nTicks, tickExec, interrupted, nExec, batch_failed>>

\* _save_data raises: line 301 for an unsupported format, or the write
\* itself fails (the directory is left as it was)
SaveFails ==
    /\ cpc = "save" /\ save
    /\ error' = IF format \in SupportedFormats THEN "OSError" ELSE "ValueError"
    /\ cpc' = "exc"
    /\ UNCHANGED <<cfgVars, appVars, loadVars, envVars, op, called, outcome, dataset_name, save,
                   callbacks, collection_time, df, schedParams,
                   schedVars, batchVars, onceHist, schedHist, nExec,
                   batch_failed>>

(* ------------------------ client: collect_once ------------------------ *)
CallCollectOnce ==
    /\ op = "idle" /\ ~called
    /\ op' = "once" /\ called' = TRUE /\ outcome' = "none" /\ error' = "none"
    /\ \E name \in DatasetNames, sv \in BOOLEAN, cbs \in CallbackLists :
        EnterCollectOnce(name, sv, cbs)
    /\ nTicks' = 0 /\ tickExec' = 0 /\ interrupted' = FALSE
    /\ nSaves' = 0
    /\ UNCHANGED <<cfgVars, appVars, loadVars, envVars, schedParams, schedVars, batchVars,
                   batch_failed>>

OnceReturns ==
    /\ op = "once" /\ cpc = "ret"
    /\ op' = "idle" /\ outcome' = "returned" /\ cpc' = "done"
    /\ UNCHANGED <<cfgVars, appVars, loadVars, envVars, called, error, dataset_name, save,
                   callbacks, collection_time, df, schedParams,
                   schedVars, batchVars, onceHist, schedHist, nExec,
                   batch_failed>>

OnceRaises ==
    /\ op = "once" /\ cpc = "exc"
    /\ op' = "idle" /\ outcome' = "raised" /\ cpc' = "done"
    /\ UNCHANGED <<cfgVars, appVars, loadVars, envVars, called, error, dataset_name, save,
                   callbacks, collection_time, df, schedParams,
                   schedVars, batchVars, onceHist, schedHist, nExec,
                   batch_failed>>

(* ------------------------ schedule_collection ------------------------- *)
\* the call and lines 186-194
CallSchedule ==
    /\ op = "idle" /\ ~called
    /\ op' = "sched" /\ called' = TRUE /\ outcome' = "none" /\ error' = "none"
    /\ dataset_name' \in DatasetNames
    /\ callbacks' \in CallbackLists
    /\ max_collections' \in {None} \cup ((0 - 1)..MaxCollections)
    /\ on_error' \in OnErrorPolicies
    /\ max_retries' \in 0..MaxRetriesArg
    /\ interval_minutes' \in IntervalMinutes
    /\ collected_data' = << >> /\ collection_count' = 0
    /\ spc' = "outer"
    /\ nExec' = 0 /\ nTicks' = 0 /\ tickExec' = 0 /\ interrupted' = FALSE
    /\ nSaves' = 0
    /\ UNCHANGED <<cfgVars, appVars, loadVars, envVars, cpc, save, collection_time, df,
                   retry_count, success, batchVars, onceHist, batch_failed>>

\* lines 195-197: the outer loop's test; a tick starts
OuterTest ==
    /\ op = "sched" /\ spc = "outer"
    /\ IF LoopCond(max_collections, collection_count)
       THEN /\ retry_count' = 0 /\ success' = FALSE
            /\ spc' = "inner"
            /\ nTicks' = Count(nTicks) /\ tickExec' = 0
       ELSE /\ spc' = "exit"
            /\ UNCHANGED <<retry_count, success, nTicks, tickExec>>
    /\ UNCHANGED <<cfgVars, appVars, loadVars, envVars, clientVars, onceVars, schedParams,
                   collected_data, collection_count, batchVars, onceHist,
                   interrupted, nSaves, nExec, batch_failed>>

\* lines 199-206: the inner loop's test; collect_once is called
InnerTest ==
    /\ op = "sched" /\ spc = "inner"
    /\ IF InnerCond(success, retry_count, max_retries)
       THEN /\ spc' = "call"
            /\ EnterCollectOnce(dataset_name, TRUE, callbacks)
            /\ tickExec' = tickExec + 1
       ELSE /\ spc' = "post"
            /\ UNCHANGED <<onceVars, onceHist, nExec, tickExec>>
    /\ UNCHANGED <<cfgVars, appVars, loadVars, envVars, clientVars, schedParams, collected_data,
                   collection_count, retry_count, success, batchVars, nTicks,
                   interrupted, nSaves, batch_failed>>

\* mutant: the table is not kept
Collect_Drop(cd, t) == cd
\* line 207: collected_data.append(df)
Collect(cd, t) == Append(cd, t)

\* lines 201-207: collect_once returned and its table is appended
SchedCollected ==
    /\ op = "sched" /\ spc = "call" /\ cpc = "ret"
    /\ collected_data' = Collect(collected_data, df)
    /\ spc' = "appended" /\ LeaveCollectOnce
    /\ UNCHANGED <<cfgVars, appVars, loadVars, envVars, clientVars, dataset_name, save,
                   callbacks, schedParams, collection_count, retry_count,
                   success, batchVars, schedHist, nExec, batch_failed>>

\* lines 208-214: the collection is counted, in a statement of its own
SchedCounted ==
    /\ op = "sched" /\ spc = "appended"
    /\ collection_count' = collection_count + 1
    /\ success' = TRUE
    /\ spc' = "inner"
    /\ UNCHANGED <<cfgVars, appVars, loadVars, envVars, clientVars, onceVars, schedParams,
                   collected_data, retry_count, batchVars, onceHist,
                   schedHist, nExec, batch_failed>>

\* mutant: a failure is counted twice
CountFailure_Twice(rc) == rc + 2
\* line 217: retry_count += 1
CountFailure(rc) == rc + 1

\* mutant: 'stop' is treated like 'continue'
HandlerTarget_NoStop(oe, rc, mr) ==
    IF ShouldRetry(oe, rc, mr) THEN "retry_sleep" ELSE "post"
\* mutant: 'continue' backs off and re-attempts as 'retry' does
HandlerTarget_BackOff(oe, rc, mr) ==
    IF oe = "stop" THEN "raise"
    ELSE IF rc <= mr THEN "retry_sleep"
    ELSE "post"
\* where the handler goes after counting the failure: lines 222-228
HandlerTarget(oe, rc, mr) ==
    IF oe = "stop" THEN "raise"
    ELSE IF ShouldRetry(oe, rc, mr) THEN "retry_sleep"
    ELSE "post"

\* lines 216-228: collect_once raised an Exception
SchedExcept ==
    /\ op = "sched" /\ spc = "call" /\ cpc = "exc"
    /\ retry_count' = CountFailure(retry_count)
    /\ LeaveCollectOnce
    /\ LET target == HandlerTarget(on_error, retry_count', max_retries) IN
       IF target = "raise"
       THEN /\ op' = "idle" /\ outcome' = "raised" /\ spc' = "done"
            /\ error' = error
       ELSE /\ spc' = target /\ error' = "none"
            /\ UNCHANGED <<op, outcome>>
    /\ UNCHANGED <<cfgVars, appVars, loadVars, envVars, called, dataset_name, save, callbacks,
                   schedParams, collected_data, collection_count, success,
                   batchVars, schedHist, nExec, batch_failed>>

\* lines 225-226: time.sleep(30); continue
RetrySleep ==
    /\ op = "sched" /\ spc = "retry_sleep"
    /\ now' = Elapse(now, RetrySleepSeconds * TicksPerSecond)
    /\ spc' = "inner"
    /\ UNCHANGED <<cfgVars, appVars, loadVars, disk, clientVars, onceVars, schedParams,
                   collected_data, collection_count, retry_count, success,
                   batchVars, onceHist, schedHist, nExec, batch_failed>>

\* line 231: is there a next collection to wait for
PostTest ==
    /\ op = "sched" /\ spc = "post"
    /\ spc' = IF LoopCond(max_collections, collection_count)
              THEN "interval_sleep" ELSE "outer"
    /\ UNCHANGED <<cfgVars, appVars, loadVars, envVars, clientVars, onceVars, schedParams,
                   collected_data, collection_count, retry_count, success,
                   batchVars, onceHist, schedHist, nExec, batch_failed>>

\* line 232: time.sleep(interval_minutes * 60)
IntervalSleep ==
    /\ op = "sched" /\ spc = "interval_sleep"
    /\ now' = Elapse(now, interval_minutes * SecondsPerMinute * TicksPerSecond)
    /\ spc' = "outer"
    /\ UNCHANGED <<cfgVars, appVars, loadVars, disk, clientVars, onceVars, schedParams,
                   collected_data, collection_count, retry_count, success,
                   batchVars, onceHist, schedHist, nExec, batch_failed>>

\* the statements the try block of lines 194-232 covers
InTry == spc \in {"outer", "inner", "call", "appended", "retry_sleep", "post",
                  "interval_sleep"}

\* lines 234-238: KeyboardInterrupt is raised in the main thread, wherever
\* it is inside the try block (a BaseException: the handlers of lines 131
\* and 216 do not catch it); a collect_once in flight is abandoned, the
\* interruption is logged and collected_data is returned
KeyboardInterrupt ==
    /\ op = "sched" /\ InTry
    /\ interrupted' = TRUE
    /\ op' = "idle" /\ outcome' = "returned" /\ spc' = "done"
    /\ LeaveCollectOnce /\ error' = "none"
    /\ retry_count' = 0 /\ success' = FALSE
    /\ nTicks' = 0 /\ tickExec' = 0 /\ nExec' = 0 /\ nSaves' = 0
    /\ UNCHANGED <<cfgVars, appVars, loadVars, envVars, called, dataset_name, save, callbacks,
                   schedParams, collected_data, collection_count, batchVars,
                   batch_failed>>

\* lines 237-238: return collected_data
SchedReturns ==
    /\ op = "sched" /\ spc = "exit"
    /\ op' = "idle" /\ outcome' = "returned" /\ spc' = "done"
    /\ UNCHANGED <<cfgVars, appVars, loadVars, envVars, called, error, onceVars, schedParams,
                   collected_data, collection_count, retry_count, success,
                   batchVars, onceHist, schedHist, nExec, batch_failed>>

(* --------------------------- collect_batch ---------------------------- *)
\* the call and lines 255-256
CallBatch ==
    /\ op = "idle" /\ ~called
    /\ op' = "batch" /\ called' = TRUE /\ outcome' = "none" /\ error' = "none"
    /\ queries' \in QueryMaps
    /\ q_i' = 1 /\ results' = {} /\ bpc' = "loop"
    /\ nExec' = 0 /\ batch_failed' = << >>
    /\ UNCHANGED <<cfgVars, appVars, loadVars, envVars, onceVars, schedParams, schedVars,
                   onceHist, schedHist>>

\* lines 258-266: the next entry; its callbacks are callbacks.get(name)
BatchNext ==
    /\ op = "batch" /\ bpc = "loop" /\ q_i <= Len(queries)
    /\ bpc' = "call"
    /\ \E cbs \in CallbackLists : EnterCollectOnce(queries[q_i], TRUE, cbs)
    /\ UNCHANGED <<cfgVars, appVars, loadVars, envVars, clientVars, schedParams, schedVars,
                   queries, q_i, results, schedHist, batch_failed>>

\* line 267: results[dataset_name] = df
BatchCollected ==
    /\ op = "batch" /\ bpc = "call" /\ cpc = "ret"
    /\ results' = Write(results, dataset_name, df)
    /\ q_i' = q_i + 1 /\ bpc' = "loop" /\ LeaveCollectOnce
    /\ UNCHANGED <<cfgVars, appVars, loadVars, envVars, clientVars, dataset_name, save,
                   callbacks, schedParams, schedVars, queries, schedHist,
                   nExec, batch_failed>>

\* mutant: a failure ends the loop (the try around the loop, not in it)
AfterFailedEntry_Break(i, qs) == Len(qs) + 1
\* lines 258 and 268-269: after an entry's failure the loop goes on with
\* the next entry
AfterFailedEntry(i, qs) == i + 1

\* lines 268-269: the entry's error is logged
BatchExcept ==
    /\ op = "batch" /\ bpc = "call" /\ cpc = "exc"
    /\ batch_failed' = Append(batch_failed, dataset_name)
    /\ q_i' = AfterFailedEntry(q_i, queries)
    /\ bpc' = "loop" /\ LeaveCollectOnce
    /\ error' = "none"
    /\ UNCHANGED <<cfgVars, appVars, loadVars, envVars, op, called, outcome, dataset_name,
                   save, callbacks, schedParams, schedVars, queries, results,
                   schedHist, nExec>>

\* lines 271-272: return results
BatchReturns ==
    /\ op = "batch" /\ bpc = "loop" /\ q_i > Len(queries)
    /\ op' = "idle" /\ outcome' = "returned" /\ bpc' = "done"
    /\ UNCHANGED <<cfgVars, appVars, loadVars, envVars, called, error, onceVars, schedParams,
                   schedVars, queries, q_i, results, onceHist, schedHist,
                   nExec, batch_failed>>

(* --------------------------- specification ---------------------------- *)
(* ------------------------ load_historical_data ------------------------ *)
\* a dataset name, split at "_"
Tokens(name) == IF name = "eq_x" THEN <<"eq", "x">> ELSE <<name>>
IsPrefix(p, q) == Len(p) <= Len(q) /\ SubSeq(q, 1, Len(p)) = p

\* lines 359-363: output_dir.glob(f"{dataset_name}_*.<ext>") matches the
\* files whose stem starts with dataset_name and "_" (in a snapshot's stem
\* the timestamp string follows the name)
GlobMatches(name, x) == IsPrefix(Tokens(name), Tokens(x.name[1]))

\* line 377: stem.replace(f"{dataset_name}_", ""), on the name part of the
\* stem: every occurrence is removed
RECURSIVE RemoveAll(_, _)
RemoveAll(q, p) ==
    IF q = << >> THEN << >>
    ELSE IF IsPrefix(p, q) THEN RemoveAll(SubSeq(q, Len(p) + 1, Len(q)), p)
    ELSE <<Head(q)>> \o RemoveAll(Tail(q), p)

\* lines 377-378: the instant parsed from a file's name, or None where
\* strptime raises ValueError
FileDate(name, x) ==
    IF RemoveAll(Tokens(x.name[1]), Tokens(name)) = << >>
    THEN strptime(x.name[2], timestamp_format)
    ELSE None

\* lines 372-388: the date filter keeps a file whose name parses and whose
\* instant is inside the bounds given
InRange(name, x, sd, ed) ==
    /\ FileDate(name, x) # None
    /\ ~(sd # None /\ FileDate(name, x) < sd)
    /\ ~(ed # None /\ FileDate(name, x) > ed)

\* lines 359-388: the files to load
Matching(d, name, sd, ed) ==
    LET globbed == IF format \in {"csv", "parquet"}
                   THEN {x \in d : GlobMatches(name, x)}
                   ELSE {}
    IN IF sd # None \/ ed # None
       THEN {x \in globbed : InRange(name, x, sd, ed)}
       ELSE globbed

\* a file's path as the characters sorted() compares: digits come before
\* "_", and "_" before the lower-case letters
TokenCode(tok) == CASE tok = "eq" -> Radix + 1
                    [] tok = "fx-us" -> Radix + 2
                    [] OTHER -> Radix + 3
RECURSIVE NameCodes(_)
NameCodes(q) ==
    IF q = << >> THEN << >>
    ELSE <<TokenCode(Head(q)), Radix>> \o NameCodes(Tail(q))
PathKey(x) == NameCodes(Tokens(x.name[1])) \o x.name[2]

\* a < b for two such strings
RECURSIVE LexLess(_, _)
LexLess(a, b) ==
    IF b = << >> THEN FALSE
    ELSE IF a = << >> THEN TRUE
    ELSE IF Head(a) # Head(b) THEN Head(a) < Head(b)
    ELSE LexLess(Tail(a), Tail(b))

\* line 394: sorted(files)
RECURSIVE Sorted(_)
Sorted(fs) ==
    IF fs = {} THEN << >>
    ELSE LET first == CHOOSE x \in fs :
                        \A y \in fs \ {x} : LexLess(PathKey(x), PathKey(y))
         IN <<first>> \o Sorted(fs \ {first})

\* the dates a client may pass, in clock ticks (None: no bound)
LoadDates == {None} \cup {s * TicksPerSecond : s \in 1..Radix}

\* lines 356-394, up to the first read: the directory is listed; with
\* format 'sqlite' the method goes straight to line 367
LoadGlob ==
    /\ lpc = "idle"
    /\ \E name \in DatasetNames, sd \in LoadDates, ed \in LoadDates,
          cmb \in BOOLEAN :
        /\ load_dataset' = name /\ start_date' = sd /\ end_date' = ed
        /\ combine' = cmb
        /\ files' = IF format = "sqlite" THEN << >>
                    ELSE Sorted(Matching(disk, name, sd, ed))
    /\ lpc' = IF format = "sqlite" THEN "empty" ELSE "read"
    /\ dataframes' = << >> /\ read_log' = << >> /\ read_errors' = << >>
    /\ UNCHANGED <<cfgVars, appVars, envVars, called, outcome, error, onceVars,
                   schedParams, schedVars, batchVars, loaded, onceHist,
                   schedHist, nExec, batch_failed>>

\* the client calls load_historical_data
CallLoad == op = "idle" /\ op' = "load" /\ LoadGlob

\* lines 395-402, one file: pd.read_csv / pd.read_parquet returns the
\* table, or raises (NameError where pd is not bound, else the failure of
\* the read); the handler logs the error and the loop goes on
LoadReadFile ==
    /\ lpc = "read" /\ files # << >>
    /\ \E readable \in BOOLEAN :
        IF PandasBound /\ readable
        THEN /\ dataframes' = Append(dataframes, Head(files).table)
             /\ read_errors' = read_errors
        ELSE /\ dataframes' = dataframes
             /\ read_errors' = Append(read_errors, Head(files).name)
    /\ read_log' = Append(read_log, Head(files).name)
    /\ files' = Tail(files)
    /\ UNCHANGED <<cfgVars, appVars, envVars, clientVars, onceVars, schedParams,
                   schedVars, batchVars, lpc, load_dataset, start_date,
                   end_date, combine, loaded, onceHist, schedHist, nExec,
                   batch_failed>>

LoadRead == op = "load" /\ LoadReadFile

\* lines 404-413, and line 367: what the caller gets. pd.DataFrame() and
\* pd.concat raise NameError where pd is not bound
LoadResult(dfs, cmb) ==
    IF dfs = << >>
    THEN IF PandasBound
         THEN [kind |-> "table", parts |-> << >>, error |-> "none"]
         ELSE [kind |-> "raised", parts |-> << >>, error |-> "NameError"]
    ELSE IF cmb
    THEN IF PandasBound
         THEN [kind |-> "table", parts |-> dfs, error |-> "none"]
         ELSE [kind |-> "raised", parts |-> << >>, error |-> "NameError"]
    ELSE [kind |-> "list", parts |-> dfs, error |-> "none"]

\* load_historical_data is left, by return or by the exception
LoadFinish ==
    /\ lpc = "empty" \/ (lpc = "read" /\ files = << >>)
    /\ loaded' = LoadResult(dataframes, combine)
    /\ lpc' = "done" /\ dataframes' = << >>
    /\ UNCHANGED <<cfgVars, appVars, envVars, called, outcome, error, onceVars,
                   schedParams, schedVars, batchVars, load_dataset,
                   start_date, end_date, combine, files, read_log,
                   read_errors, onceHist, schedHist, nExec, batch_failed>>

LoadReturns == op = "load" /\ op' = "idle" /\ LoadFinish

Next ==
    \/ CallCollectOnce \/ OnceReturns \/ OnceRaises
    \/ QueryOk \/ QueryFails \/ ApplyCallbacks
    \/ Validate \/ SkipSave \/ SaveOk \/ SaveFails
    \/ CallSchedule \/ OuterTest \/ InnerTest \/ SchedCollected
    \/ SchedCounted
    \/ SchedExcept \/ RetrySleep \/ PostTest \/ IntervalSleep
    \/ KeyboardInterrupt \/ SchedReturns
    \/ CallBatch \/ BatchNext \/ BatchCollected \/ BatchExcept
    \/ BatchReturns

Spec == Init /\ [][Next]_vars

\* every statement that can run does run: executions and sleeps complete
LiveSpec == Spec /\ WF_vars(Next)

(* ------------------- loading what a directory holds ------------------- *)
\* a file or table of the directory
Stored(name, str) ==
    [name |-> <<name, str>>,
     table |-> Scanned(1)]
\* what the output directory may hold when load_historical_data is called:
\* the snapshots earlier collect_once calls of collectors with this
\* timestamp_format saved (lines 281-298) for "eq", at the seconds
\* 1..Radix, and for another dataset, "eq_x"; and a file "eq_<junk>" that
\* no collection wrote
DirectoryFiles(fmt) ==
    {Stored("eq", strftime(s * TicksPerSecond, fmt)) : s \in 1..Radix}
    \cup {Stored("eq_x", strftime(TicksPerSecond, fmt)), Stored("eq", <<0>>)}

\* a collector of any timestamp_format on such a directory
LoadInit ==
    /\ format \in Formats
    /\ timestamp_format \in TimestampFormats
    /\ add_collection_metadata \in BOOLEAN
    /\ validate_data \in BOOLEAN
    /\ disk \in SUBSET DirectoryFiles(timestamp_format)
    /\ Idle

\* the client loads what the directory holds
LoadNext ==
    \/ CallLoad
    \/ LoadRead
    \/ LoadReturns

LoadSpec == LoadInit /\ [][LoadNext]_vars

(* ----------------- a reader while a snapshot is saved ------------------ *)
\* the formats whose snapshot is a file of its own, written by to_csv or
\* to_parquet straight to its path
FileFormats == {"csv", "parquet"}
\* what the file holds while it is being written: less than the table
Partial(t) == [t EXCEPT !.rows = 0 - 1]
\* the file holds a whole table
Complete(x) == x.table.rows >= 0

\* lines 283-289, first part: df.to_csv(filepath) / df.to_parquet(filepath)
\* opens the file under its final name and starts writing
SaveOpen ==
    /\ cpc = "save" /\ save /\ format \in FileFormats
    /\ disk' = Write(disk, SnapshotName(dataset_name, collection_time),
                     Partial(df))
    /\ cpc' = "writing"
    /\ UNCHANGED <<cfgVars, appVars, loadVars, now, clientVars, dataset_name, save,
                   callbacks, collection_time, df, schedParams, schedVars,
                   batchVars, onceHist, schedHist, nExec, batch_failed>>

\* lines 283-289, second part: the last bytes are written and the file is
\* closed
SaveClose ==
    /\ cpc = "writing"
    /\ disk' = Write(disk, SnapshotName(dataset_name, collection_time), df)
    /\ saved_name' = SnapshotName(dataset_name, collection_time)
    /\ cpc' = "ret"
    /\ UNCHANGED <<cfgVars, appVars, loadVars, now, clientVars, dataset_name, save,
                   callbacks, collection_time, df, schedParams, schedVars,
                   batchVars, call_start, validated, issues, disk_before,
                   schedHist, nExec, batch_failed>>

\* the write fails midway (the disk is full): the exception leaves
\* collect_once and the file stays as far as it was written
SaveBreaks ==
    /\ cpc = "writing"
    /\ error' = "OSError" /\ cpc' = "exc"
    /\ UNCHANGED <<cfgVars, appVars, loadVars, envVars, op, called, outcome,
                   dataset_name, save, callbacks, collection_time, df,
                   schedParams, schedVars, batchVars, onceHist, schedHist,
                   nExec, batch_failed>>

\* lines 291-298: to_sql writes the table in one transaction
SaveAtomic == format = "sqlite" /\ SaveOk

\* another process calls load_historical_data on the same directory, with
\* a collector of the same configuration
ReaderCalls == op' = op /\ LoadGlob
ReaderReturns == op' = op /\ LoadFinish

\* one process in collect_once, another in load_historical_data
RaceNext ==
    \/ CallCollectOnce \/ OnceReturns \/ OnceRaises
    \/ QueryOk \/ QueryFails \/ ApplyCallbacks \/ Validate
    \/ SkipSave \/ SaveAtomic \/ SaveOpen \/ SaveClose \/ SaveBreaks
    \/ SaveFails
    \/ ReaderCalls \/ LoadReadFile \/ ReaderReturns

RaceSpec == Init /\ [][RaceNext]_vars

(* ------------------------- building a Query --------------------------- *)
\* the markets and ticker lists the callers pass
Markets == {"america", "crypto", "forex"}
TickerLists == {<<"NASDAQ:AAPL">>, <<"NASDAQ:AAPL", "FX:EURUSD">>}
\* everything but the Query
collectorVars == <<cfgVars, envVars, clientVars, onceVars, schedParams,
                   schedVars, batchVars, loadVars, onceHist, schedHist,
                   nExec, batch_failed>>

\* query.set_markets(market), as live_scanner_app.py and
\* examples/batch_collection.py call it
CallSetMarkets ==
    /\ Len(universe_calls) < MaxCalls
    /\ \E m \in Markets :
        /\ universe' = set_markets(universe, m)
        /\ universe_calls' = Append(universe_calls,
                                    [op |-> "set_markets", arg |-> m])
    /\ UNCHANGED <<collectorVars, scanVars, liveVars>>

\* query.set_tickers(*full_symbols), as scan_symbols calls it
CallSetTickers ==
    /\ Len(universe_calls) < MaxCalls
    /\ \E ts \in TickerLists :
        /\ universe' = set_tickers(universe, ts)
        /\ universe_calls' = Append(universe_calls,
                                    [op |-> "set_tickers", arg |-> ts])
    /\ UNCHANGED <<collectorVars, scanVars, liveVars>>

QueryNext == CallSetMarkets \/ CallSetTickers

QuerySpec == Init /\ [][QueryNext]_vars

(* ------------------------- MultiAssetScanner -------------------------- *)
\* a Python str is the tuple of its characters
\* the letters of the timeframe names, for str.lower()
UpperCase == <<"A", "D", "E", "H", "I", "K", "L", "M", "N", "O", "R", "T",
               "W", "Y">>
LowerCase == <<"a", "d", "e", "h", "i", "k", "l", "m", "n", "o", "r", "t",
               "w", "y">>
lower_char(c) ==
    IF \E i \in DOMAIN UpperCase : UpperCase[i] = c
    THEN LowerCase[CHOOSE i \in DOMAIN UpperCase : UpperCase[i] = c]
    ELSE c
upper_char(c) ==
    IF \E i \in DOMAIN LowerCase : LowerCase[i] = c
    THEN UpperCase[CHOOSE i \in DOMAIN LowerCase : LowerCase[i] = c]
    ELSE c
\* timeframe.lower()
lower(s) == [i \in DOMAIN s |-> lower_char(s[i])]

\* the timeframe mappings: user-friendly name -> TradingView value
TIMEFRAMES ==
    { [key |-> <<"5", "m", "i", "n">>, value |-> <<"5">>],
      [key |-> <<"5", "m">>, value |-> <<"5">>],
      [key |-> <<"1", "5", "m", "i", "n">>, value |-> <<"1", "5">>],
      [key |-> <<"1", "5", "m">>, value |-> <<"1", "5">>],
      [key |-> <<"1", "h", "r">>, value |-> <<"6", "0">>],
      [key |-> <<"1", "h">>, value |-> <<"6", "0">>],
      [key |-> <<"4", "h", "r">>, value |-> <<"2", "4", "0">>],
      [key |-> <<"4", "h">>, value |-> <<"2", "4", "0">>],
      [key |-> <<"d", "a", "i", "l", "y">>, value |-> <<"1", "D">>],
      [key |-> <<"D">>, value |-> <<"1", "D">>],
      [key |-> <<"w", "e", "e", "k", "l", "y">>, value |-> <<"1", "W">>],
      [key |-> <<"W">>, value |-> <<"1", "W">>],
      [key |-> <<"m", "o", "n", "t", "h", "l", "y">>,
       value |-> <<"1", "M">>],
      [key |-> <<"M">>, value |-> <<"1", "M">>] }
\* TIMEFRAMES.get(k, default)
TimeframesGet(k, default) ==
    IF \E e \in TIMEFRAMES : e.key = k
    THEN (CHOOSE e \in TIMEFRAMES : e.key = k).value
    ELSE default

\* _normalize_timeframe
normalize_timeframe(t) == TimeframesGet(lower(t), t)

\* f'{field}|{tf}'
Suffixed(field, t) == <<field, "|">> \o t
\* the fields of the default columns that carry the timeframe
TimeframeFields == <<"close", "open", "high", "low", "volume", "change",
                     "RSI", "MACD.macd", "MACD.signal", "EMA5", "EMA20",
                     "EMA50", "EMA200">>
\* the default columns of scan_symbols
DefaultColumns(t) ==
    << <<"name">>, <<"description">> >>
        \o [i \in DOMAIN TimeframeFields |-> Suffixed(TimeframeFields[i], t)]

\* a name in every letter case
RECURSIVE CaseVariants(_)
CaseVariants(s) ==
    IF s = << >> THEN {<< >>}
    ELSE {<<c>> \o r : c \in {lower_char(Head(s)), upper_char(Head(s))},
                       r \in CaseVariants(Tail(s))}
\* the timeframes the callers pass: the names of TIMEFRAMES in any letter
\* case, TradingView's own values, and names TIMEFRAMES does not have
Timeframes ==
    UNION {CaseVariants(e.key) : e \in TIMEFRAMES}
        \cup {e.value : e \in TIMEFRAMES}
        \cup {<<"2", "h">>, <<"1", "d">>, <<"3", "0">>, <<"h", "r">>}

\* the markets scan_all_markets scans, in its order
ScannedMarkets == <<"forex", "commodities", "indices", "bonds">>
\* scan_all_markets is scanning market m
Scanning(m) == \E i \in DOMAIN ScannedMarkets : ScannedMarkets[i] = m
\* where scan_all_markets goes after market m: the next market, or line 377
AfterMarket(m) ==
    LET i == CHOOSE j \in DOMAIN ScannedMarkets : ScannedMarkets[j] = m
    IN  IF i < Len(ScannedMarkets) THEN ScannedMarkets[i + 1] ELSE "ret"
\* results[market] = df
Put(r, k, v) == [x \in DOMAIN r \cup {k} |-> IF x = k THEN v ELSE r[x]]

\* scanner.scan_all_markets(timeframe, include_stocks, include_crypto):
\* lines 363-367, up to the call of scan_symbols through scan_forex
CallScanAllMarkets ==
    /\ mpc = "idle"
    /\ timeframe' \in Timeframes
    /\ include_stocks' \in BOOLEAN
    /\ include_crypto' \in BOOLEAN
    /\ market_results' = << >>
    /\ mpc' = ScannedMarkets[1] /\ kpc' = "normalize"
    /\ UNCHANGED <<collectorVars, queryVars, liveVars, tf, scan_columns>>

\* scan_symbols, line 167
ScanNormalize ==
    /\ Scanning(mpc) /\ kpc = "normalize"
    /\ tf' = normalize_timeframe(timeframe)
    /\ kpc' = "columns"
    /\ UNCHANGED <<collectorVars, queryVars, liveVars, timeframe,
                   include_stocks, include_crypto, mpc, scan_columns, market_results>>

\* scan_symbols, lines 168-187
ScanSelect ==
    /\ Scanning(mpc) /\ kpc = "columns"
    /\ scan_columns' = DefaultColumns(tf)
    /\ kpc' = "query"
    /\ UNCHANGED <<collectorVars, queryVars, liveVars, timeframe,
                   include_stocks, include_crypto, mpc, tf, market_results>>

\* scan_symbols, lines 191-193, and the assignment to results[...]; after
\* bonds, line 377
ScanReturns ==
    /\ Scanning(mpc) /\ kpc = "query"
    /\ market_results' = Put(market_results, mpc,
                             [columns |-> scan_columns])
    /\ mpc' = AfterMarket(mpc)
    /\ kpc' = IF mpc' = "ret" THEN "idle" ELSE "normalize"
    /\ UNCHANGED <<collectorVars, queryVars, liveVars, timeframe,
                   include_stocks, include_crypto, tf, scan_columns>>

\* get_scanner_data raises: nothing on the way catches it
ScanRaises ==
    /\ Scanning(mpc) /\ kpc = "query"
    /\ mpc' = "exc" /\ kpc' = "idle"
    /\ UNCHANGED <<collectorVars, queryVars, liveVars, timeframe,
                   include_stocks, include_crypto, tf, scan_columns, market_results>>

\* a default collector beside the scanner
ScannerInit ==
    /\ Init
    /\ format = "parquet" /\ add_collection_metadata /\ validate_data

ScannerNext ==
    \/ CallScanAllMarkets
    \/ ScanNormalize
    \/ ScanSelect
    \/ ScanReturns
    \/ ScanRaises

ScannerSpec == ScannerInit /\ [][ScannerNext]_vars

(* --------------------------- live_scanner_app -------------------------- *)
\* presses of 'Run Scan Now' in one browser session
MaxClicks == 2
\* refresh intervals that elapse in one browser session
MaxIntervals == 2
\* rows a scan of the app returns
LiveRowCounts == {1, 2}

\* Streamlit runs the script from its top on every widget event and on
\* st.rerun(); st.session_state outlives the runs, and lines 75-84 leave the
\* keys that exist alone.  The script is followed from line 261 on.

\* line 261, st.button(...) is False: the run was not started by a press
ButtonNotPressed ==
    /\ apc = "button" /\ ~clicked
    /\ apc' = "auto"
    /\ UNCHANGED <<collectorVars, queryVars, scanVars, clicked, checkbox,
                   auto_scan_enabled, scan_data, scan_history, nElapsed,
                   nClicks>>

\* lines 261-298: the button is True, the query returns, the result is
\* stored and st.rerun() starts the script again
LiveScanSucceeds ==
    /\ apc = "button" /\ clicked
    /\ \E r \in LiveRowCounts :
        /\ scan_data' = Scanned(r)
        /\ scan_history' = Append(scan_history,
                                  [total_count |-> r, returned |-> r])
    /\ clicked' = FALSE
    /\ apc' = "button"
    /\ UNCHANGED <<collectorVars, queryVars, scanVars, checkbox,
                   auto_scan_enabled, nElapsed, nClicks>>

\* lines 261-301: the query raises, st.error shows it and the script goes on
LiveScanFails ==
    /\ apc = "button" /\ clicked
    /\ apc' = "auto"
    /\ UNCHANGED <<collectorVars, queryVars, scanVars, clicked, checkbox,
                   auto_scan_enabled, scan_data, scan_history, nElapsed,
                   nClicks>>

\* lines 307-317: the checkbox is read and stored; when it is set the script
\* goes to sleep at line 318, otherwise it runs to its end (lines 321-670)
AutoScanBlock ==
    /\ apc = "auto"
    /\ auto_scan_enabled' = checkbox
    /\ apc' = IF checkbox THEN "sleep" ELSE "waiting"
    /\ clicked' = FALSE
    /\ UNCHANGED <<collectorVars, queryVars, scanVars, checkbox, scan_data,
                   scan_history, nElapsed, nClicks>>

\* lines 318-319: time.sleep(refresh_interval) returns and st.rerun()
\* starts the script again, with the widgets as the user left them
SleepEnds ==
    /\ apc = "sleep" /\ nElapsed < MaxIntervals
    /\ nElapsed' = IF checkbox THEN nElapsed + 1 ELSE nElapsed
    /\ apc' = "button"
    /\ UNCHANGED <<collectorVars, queryVars, scanVars, clicked, checkbox,
                   auto_scan_enabled, scan_data, scan_history, nClicks>>

\* the user presses 'Run Scan Now': a new run starts, or, while the script
\* sleeps, the press waits for the rerun
UserClicksRun ==
    /\ apc \in {"waiting", "sleep"} /\ ~clicked /\ nClicks < MaxClicks
    /\ clicked' = TRUE
    /\ nClicks' = nClicks + 1
    /\ apc' = IF apc = "waiting" THEN "button" ELSE apc
    /\ UNCHANGED <<collectorVars, queryVars, scanVars, checkbox,
                   auto_scan_enabled, scan_data, scan_history, nElapsed>>

\* the user ticks or clears 'Enable auto-scan'
UserToggles ==
    /\ apc \in {"waiting", "sleep"}
    /\ checkbox' = ~checkbox
    /\ apc' = IF apc = "waiting" THEN "button" ELSE apc
    /\ UNCHANGED <<collectorVars, queryVars, scanVars, clicked,
                   auto_scan_enabled, scan_data, scan_history, nElapsed,
                   nClicks>>

LiveNext ==
    \/ ButtonNotPressed
    \/ LiveScanSucceeds
    \/ LiveScanFails
    \/ AutoScanBlock
    \/ SleepEnds
    \/ UserClicksRun
    \/ UserToggles

\* a browser session opens: lines 75-84 fill st.session_state and the
\* first run reaches line 261
LiveInit == ScannerInit

LiveAppSpec == LiveInit /\ [][LiveNext]_vars

(* ------------------- validating what a table holds -------------------- *)
\* the null counts tried for a column of r rows
NullCounts(r) ==
    IF r <= MaxRows THEN 0..r ELSE {0, r \div 2, r \div 2 + 1, r}
\* the columns a table of r rows can have
ColumnsOf(r) ==
    {[nulls |-> n, distinct |-> k] :
        <<n, k>> \in {nk \in NullCounts(r) \X (0..r) :
                        /\ nk[2] <= MaxRows \/ nk[2] = r - nk[1]
                        /\ nk[2] <= r - nk[1]
                        /\ r - nk[1] > 0 => nk[2] >= 1}}
\* the different cells of a column, null being one
Patterns(c) == c.distinct + (IF c.nulls > 0 THEN 1 ELSE 0)
\* the repeated rows a table of r rows with these columns can have
DupCounts(r, cs) ==
    IF cs = << >> \/ r = 0 THEN {0}
    ELSE LET most == r - Patterns(cs[1])
             least == IF Len(cs) = 1 THEN most ELSE 0
         IN {d \in {least, most} :
                \A i \in 1..Len(cs) : d <= r - Patterns(cs[i])}
\* the tables collect_once may hand to _validate_dataframe: whatever the
\* scanner answered and the callbacks returned
ValidatedTables ==
    UNION {UNION {{[rows |-> r, cols |-> cs, dups |-> d, meta |-> m,
                    cbs |-> << >>] :
                        d \in DupCounts(r, cs),
                        m \in {<< >>, Stamp(0, "eq")}} :
                    cs \in {<< >>} \cup {<<c>> : c \in ColumnsOf(r)}
                          \cup {<<c1, c2>> :
                                    c1 \in ColumnsOf(r),
                                    c2 \in {[nulls |-> 0, distinct |-> r]}}} :
            r \in (0..MaxRows) \cup {ManyRows}}

\* collect_once has reached line 151 with such a table
ValidateInit ==
    /\ format \in Formats
    /\ timestamp_format = DefaultTimestampFormat
    /\ add_collection_metadata \in BOOLEAN
    /\ validate_data \in BOOLEAN
    /\ disk = {}
    /\ op = "once" /\ called = TRUE /\ outcome = "none" /\ error = "none"
    /\ cpc = "validate" /\ dataset_name = "eq" /\ save \in BOOLEAN
    /\ callbacks = << >> /\ collection_time = 0
    /\ df \in {t \in ValidatedTables :
                add_collection_metadata <=> t.meta # << >>}
    /\ call_start = 0 /\ validated = NoTable /\ issues = {}
    /\ saved_name = << >>
    /\ disk_before = {}
    /\ FramesIdle

\* the rest of collect_once from line 151 on, and its return to the client
ValidateNext ==
    \/ Validate
    \/ SkipSave \/ SaveOk \/ SaveFails
    \/ OnceReturns \/ OnceRaises

ValidateSpec == ValidateInit /\ [][ValidateNext]_vars

(* ------------------------------ claims -------------------------------- *)
Running == op = "sched"
RetrySleepTicks == RetrySleepSeconds * TicksPerSecond

\* C1 (as claimed): with on_error='continue' and a finite max_collections=N
\* the run returns after exactly N cycles, that is N executions of
\* collect_once, returns at most N tables and never raises.
\* (nTicks and nExec stop at MaxCount > MaxCollections, so a stopped counter
\* differs from N in the run itself too.)
C1_ExactlyNCycles ==
    (spc = "done" /\ on_error = "continue" /\ max_collections >= 0
        /\ ~interrupted)
    => /\ outcome = "returned"
       /\ nTicks = max_collections
       /\ nExec = max_collections
       /\ Len(collected_data) <= max_collections

\* C2: under on_error='retry' a tick makes at most max_retries+1 executions;
\* a failure is followed by the 30 s sleep before the loop tests again;
\* when the retries are used up the handler breaks without raising, the
\* interval sleep follows and the next tick starts; only 'retry' leads from
\* a failure to another attempt of the same tick.
C2_RetryPolicy ==
    /\ [](Running => tickExec <= max_retries + 1)
    /\ [][Running =>
            \* a failed attempt never goes straight back to the loop test
            /\ (spc = "call" /\ cpc = "exc")
                   => spc' \in {"retry_sleep", "post", "done"}
            \* only the retry policy, with retries left, sleeps and retries
            /\ (spc' = "retry_sleep")
                   => (on_error = "retry" /\ retry_count' <= max_retries)
            /\ (spc = "retry_sleep" /\ ~interrupted')
                   => (spc' = "inner" /\ ~success'
                       /\ now' = Elapse(now, RetrySleepTicks))
            \* retries used up: skipped as under 'continue'
            /\ (spc = "call" /\ cpc = "exc" /\ on_error = "retry"
                    /\ retry_count' > max_retries /\ ~interrupted')
                   => (spc' = "post" /\ outcome' = outcome /\ now' = now
                       /\ op' = "sched")
            /\ (spc = "post" /\ ~success /\ ~interrupted')
                   => spc' = "interval_sleep"
            /\ (spc = "interval_sleep" /\ ~interrupted')
                   => spc' = "outer"
            /\ (spc = "outer" /\ nTicks >= 1 /\ ~success /\ ~interrupted')
                   => (spc' = "inner" /\ retry_count' = 0)
          ]_vars

\* C2 witness: under 'retry' with max_retries >= 1 a tick has used up its
\* retries and waits for the next one
C2_Witness ==
    /\ Running /\ on_error = "retry" /\ max_retries >= 1
    /\ spc = "interval_sleep" /\ ~success
    /\ tickExec = max_retries + 1

\* C3 (as claimed): the retry counter never exceeds max_retries.
C3_RetryCountAtMostMax == Running => retry_count <= max_retries

\* C3 (amended): the retry counter is 0 when a tick starts, counts the
\* tick's failed attempts, and never exceeds max_retries + 1.
C3_RetryCountBounded ==
    Running =>
        /\ retry_count <= max_retries + 1
        /\ (spc = "inner" /\ tickExec = 0) => retry_count = 0
        /\ retry_count <= tickExec

\* C3 witness: the counter stands at max_retries + 1 after the last retry
C3_Witness ==
    /\ Running /\ max_retries >= 1 /\ retry_count = max_retries + 1
    /\ nTicks >= 2

C5_Terminates == (Running /\ max_collections # None) ~> ~Running

\* C6: a KeyboardInterrupt inside the loop ends the run with a normal
\* return, under every policy, and the list returned is collected_data as it
\* stood: one table for each tick that had succeeded (the last of them
\* appended, if the signal came before line 208 counted it).
C6_InterruptKeepsData ==
    /\ [](interrupted => (outcome = "returned" /\ op = "idle"
                          /\ error = "none"))
    /\ [][interrupted'
            => /\ Running
               /\ collected_data' = collected_data
               /\ Len(collected_data)
                    = collection_count + (IF spc = "appended" THEN 1 ELSE 0)
               /\ disk' = disk
          ]_vars

\* C6 witness: an interrupted run returned a table
C6_Witness ==
    /\ interrupted /\ outcome = "returned" /\ Len(collected_data) >= 1
    /\ on_error = "stop"

\* C7 (as claimed): a KeyboardInterrupt takes effect only in the interval
\* sleep or the retry sleep, never while collect_once is executing: a
\* collection in flight runs to completion first. (The loop's own tests,
\* which take no time, are counted with the sleeps next to them.)
C7_InterruptOnlyInSleep ==
    [][interrupted' => spc \in {"retry_sleep", "interval_sleep", "outer",
                                "inner", "post"}]_vars

\* the dataset names of a set of [name, table] records keyed by snapshot
Datasets(d) == {x.name[1] : x \in d}
Range(q) == {q[i] : i \in 1..Len(q)}

\* C8: collect_batch calls collect_once once per entry whatever failed
\* before, returns normally, and its result holds exactly the entries whose
\* collect_once succeeded (those that left a snapshot); every other entry
\* was logged as failed.
C8_BatchIsolatesFailures ==
    /\ op = "batch" => outcome # "raised"
    /\ bpc = "done"
        => /\ outcome = "returned"
           /\ nExec = Len(queries)
           /\ Names(results) \cup Range(batch_failed) = Range(queries)
           /\ Names(results) \cap Range(batch_failed) = {}
           /\ Cardinality(results) + Len(batch_failed) = Len(queries)
           /\ Names(results) = Datasets(disk)

\* C8 witness: of two entries the first failed and the second succeeded
C8_Witness ==
    /\ bpc = "done" /\ Len(queries) = 2
    /\ batch_failed = <<queries[1]>>
    /\ Names(results) = {queries[2]}

\* C9 (as claimed): a successful collect_once with save=True adds exactly
\* one snapshot to the directory, and the timestamp parsed from its name
\* lies between the call's start and its end. (Times are compared in the
\* names' resolution, whole seconds: the start is truncated as the name is.
\* Stated below the clock's horizon, where instants are told apart.)
C9_OneNewSnapshotInWindow ==
    (cpc = "ret" /\ save /\ now < MaxClock)
    => /\ Cardinality(disk) = Cardinality(disk_before) + 1
       /\ strptime(strftime(call_start, timestamp_format), timestamp_format)
            <= strptime(saved_name[2], timestamp_format)
       /\ strptime(saved_name[2], timestamp_format) <= now

\* the callbacks of a list that return, in list order
Returns(cb) == ~Raises(cb)
Applied(cbs) == SelectSeq(cbs, Returns)
Snapshot(d, n) == CHOOSE x \in d : x.name = n

\* C10 (as claimed): the Validator and the persisted snapshot see the table
\* before any callback is applied.
C10_CallbacksLast ==
    /\ validated # NoTable => validated.cbs = << >>
    /\ \A x \in disk : x.table.cbs = << >>

\* C10 (amended): collect_once executes the query, stamps the metadata,
\* applies the callbacks in list order, and only then validates and
\* persists: the Validator and the snapshot see the table the callbacks
\* produced, which is the table returned.
C10_CallbacksBeforeValidateAndSave ==
    /\ cpc = "callbacks"
        => /\ df.cbs = << >> /\ validated = NoTable /\ saved_name = << >>
           /\ add_collection_metadata => df.meta # << >>
    /\ cpc = "validate"
        => /\ df.cbs = Applied(callbacks)
           /\ validated = NoTable /\ saved_name = << >>
    /\ cpc = "save"
        => /\ validate_data => validated = df
           /\ saved_name = << >>
    /\ cpc = "ret"
        => /\ df.cbs = Applied(callbacks)
           /\ validate_data => validated = df
           /\ save => (/\ saved_name \in Names(disk)
                       /\ Snapshot(disk, saved_name).table = df)

\* C10 witness: collect_once returned a table two callbacks transformed,
\* validated and saved
C10_Witness ==
    /\ cpc = "ret" /\ save /\ validate_data
    /\ callbacks = <<"f", "boom", "g">>
    /\ df.cbs = <<"f", "g">>

\* C11 (as claimed): a failure raised by any callback never aborts
\* collect_once: no exception leaves the callback loop, and the loop hands
\* on to validation the table the returning callbacks produced, in order,
\* each failing callback skipped.
C11_CallbackFailureNeverAborts ==
    /\ cpc = "exc" => error # "AttributeError"
    /\ cpc = "validate" => df.cbs = Applied(callbacks)

\* executions of collect_once the finished run made that failed: each
\* execution of a run that was not interrupted succeeded or failed
FailedCycles == nExec - collection_count

\* C12 (as claimed): when a run ends, the failure count the scheduler keeps
\* (retry_count is the only one) equals the number of cycles that failed,
\* and the last error is still recorded if there was one. (Stated where
\* the history counter nExec has not stopped.)
C12_FailuresRecorded ==
    (spc = "done" /\ ~interrupted /\ nExec < MaxCount)
    => /\ retry_count = FailedCycles
       /\ FailedCycles > 0 => error # "none"

\* the errors the retry policy is meant for
Retryable(e) == e = "TransportError"

\* C13 (as claimed): under on_error='retry' an error that is not retryable
\* is never retried: the handler does not go to the retry sleep for it.
C13_RetryOnlyRetryable ==
    [][(Running /\ spc = "call" /\ cpc = "exc" /\ on_error = "retry"
            /\ ~Retryable(error))
        => spc' # "retry_sleep"]_vars

\* the snapshots of a dataset a directory holds: the files and tables
\* collect_once names for it under the collector's timestamp_format
SnapshotsOf(d, name) ==
    {x \in d : x.name[1] = name
               /\ strptime(x.name[2], timestamp_format) # None}
RECURSIVE SumRows(_)
SumRows(ts) == IF ts = << >> THEN 0 ELSE Head(ts).rows + SumRows(Tail(ts))
RECURSIVE RowsOf(_)
RowsOf(xs) ==
    IF xs = {} THEN 0
    ELSE LET x == CHOOSE y \in xs : TRUE IN x.table.rows + RowsOf(xs \ {x})
Returned == loaded.kind \in {"table", "list"}
NoDateRange == start_date = None /\ end_date = None

\* C14 (as claimed): a read that fails during load_historical_data is
\* surfaced: no further snapshot is read after it, and the call ends by
\* raising to the caller.
C14_ReadFailureSurfaced ==
    [][read_errors # << >>
        => /\ read_log' = read_log
           /\ lpc' = "done" => loaded'.kind = "raised"]_vars

\* C15 (as claimed): load_historical_data(dataset_name, combine=True) with
\* no date range returns one table whose row count is the sum of the row
\* counts of the dataset's persisted snapshots. (Stated for N >= 1.)
C15_CombinedHasEverySnapshot ==
    (lpc = "done" /\ combine /\ NoDateRange /\ format \in SupportedFormats
        /\ SnapshotsOf(disk, load_dataset) # {})
    => /\ loaded.kind = "table"
       /\ SumRows(loaded.parts) = RowsOf(SnapshotsOf(disk, load_dataset))

\* C16 (as claimed): the snapshots are loaded in ascending order of the
\* timestamp parsed from their names, under every timestamp_format.
C16_LoadedInTimestampOrder ==
    \A i, j \in 1..Len(read_log) :
        (i < j /\ read_log[i][1] = load_dataset
               /\ read_log[j][1] = load_dataset
               /\ strptime(read_log[i][2], timestamp_format) # None
               /\ strptime(read_log[j][2], timestamp_format) # None)
        => strptime(read_log[i][2], timestamp_format)
            <= strptime(read_log[j][2], timestamp_format)

\* C17 (as claimed): load_historical_data(dataset_name) loads only files
\* saved under exactly that dataset name, with or without a date range.
C17_OnlyOwnDataset ==
    \A i \in 1..Len(read_log) : read_log[i][1] = load_dataset

\* the snapshots of the dataset whose timestamp t has start <= t <= end
InBounds(d, name, sd, ed) ==
    {x \in SnapshotsOf(d, name) :
        /\ sd # None => sd <= strptime(x.name[2], timestamp_format)
        /\ ed # None => strptime(x.name[2], timestamp_format) <= ed}

\* C18 (as claimed): with a start and/or end date the call returns exactly
\* the snapshots of the dataset whose timestamp lies inside the bounds,
\* both inclusive. (Stated where there is such a snapshot.)
C18_ExactlyInRange ==
    (lpc = "done" /\ ~NoDateRange /\ format \in SupportedFormats
        /\ InBounds(disk, load_dataset, start_date, end_date) # {})
    => /\ Returned
       /\ Range(loaded.parts)
            = {x.table : x \in InBounds(disk, load_dataset, start_date,
                                        end_date)}
       /\ Len(loaded.parts)
            = Cardinality(InBounds(disk, load_dataset, start_date, end_date))

\* C19 (as claimed): under every supported format, a snapshot collect_once
\* saved is returned by a later load_historical_data of its dataset name
\* with no date range.
C19_SaveLoadRoundTrip ==
    (lpc = "done" /\ NoDateRange /\ format \in SupportedFormats
        /\ SnapshotsOf(disk, load_dataset) # {})
    => /\ Returned
       /\ \A x \in SnapshotsOf(disk, load_dataset) :
            x.table \in Range(loaded.parts)

\* C20 (as claimed): no step removes a persisted snapshot or changes its
\* content.
C20_AppendOnly == [][\A x \in disk : x \in disk']_vars

\* the conditions of C23 on a table: it is empty, or more than half of some
\* column's cells are null, or a row repeats, or a column has at most one
\* distinct value
Flawed(t) ==
    \/ t.rows = 0 \/ Columns(t) = << >>
    \/ \E i \in 1..Len(Columns(t)) : 2 * Columns(t)[i].nulls > t.rows
    \/ t.dups > 0
    \/ \E i \in 1..Len(Columns(t)) : Columns(t)[i].distinct <= 1

\* C23 (as claimed): the Validator reports a finding exactly when the table
\* has one of these conditions.
C23_FindingsIffFlawed ==
    (cpc = "save" /\ validate_data) => (issues # {} <=> Flawed(validated))

\* C28 (as claimed): in every state of schedule_collection the list holds
\* exactly collection_count tables.
C28_ListMatchesCount ==
    Running => Len(collected_data) = collection_count

\* C28: the list holds collection_count tables, and one more between the
\* append of line 207 and the increment of line 208; the list grows only by
\* the table of a collect_once that returned, and the count only by counting
\* that table; neither exceeds a finite non-negative max_collections; a run
\* that returns without interrupt or error holds exactly max_collections
\* tables; with max_collections <= 0 nothing is executed, no time passes and
\* the list returned is empty.
C28_CountMatchesList ==
    /\ [](Running =>
            /\ Len(collected_data)
                 = collection_count + (IF spc = "appended" THEN 1 ELSE 0)
            /\ max_collections >= 0
                 => Len(collected_data) <= max_collections)
    /\ [][Running =>
            /\ collected_data' # collected_data
                 => /\ spc = "call" /\ cpc = "ret" /\ df # NoTable
                    /\ collected_data' = collected_data \o <<df>>
            /\ collection_count' # collection_count
                 => /\ spc = "appended"
                    /\ collection_count' = collection_count + 1
          ]_vars
    /\ [](spc = "done" /\ outcome = "returned" /\ ~interrupted
            /\ max_collections >= 0
            => Len(collected_data) = max_collections)
    /\ [][(Running /\ max_collections # None /\ max_collections <= 0)
            => /\ cpc' = "idle" /\ nExec' = 0 /\ now' = now
               /\ spc' \in {"exit", "done"}
               /\ collected_data' = << >>
          ]_vars

\* C28 witness: a run asked for two collections returned two tables after a
\* failed execution
C28_Witness ==
    /\ spc = "done" /\ outcome = "returned" /\ ~interrupted
    /\ max_collections = 2 /\ Len(collected_data) = 2 /\ nExec = 3

\* C21 (as claimed): within one schedule_collection run every snapshot
\* saved has a name timestamp greater than that of every snapshot saved
\* before it, so the names are pairwise distinct and ordered by collection
\* time. (The directory is empty when the run starts; stated below the
\* clock's horizon, where instants are told apart.)
C21_NamesStrictlyIncrease ==
    [][(Running /\ cpc = "save" /\ cpc' = "ret" /\ now < MaxClock)
        => \A x \in disk :
            strptime(x.name[2], timestamp_format)
                < strptime(saved_name'[2], timestamp_format)
      ]_vars

\* the interval sleep in ticks
IntervalTicks == interval_minutes * SecondsPerMinute * TicksPerSecond
\* a step of the run that is not its interruption
Uninterrupted == Running /\ ~interrupted'

\* C27: a tick ends at line 231, whether its collection succeeded or was
\* given up; from there the run sleeps one interval unless collection_count
\* has reached max_collections, and only that sleep (or the reached count)
\* leads to the next tick, whose first attempt follows with no other sleep.
\* Under on_error='continue' the one failed attempt of a tick goes to line
\* 231 at once: the tick made exactly one attempt and no retry sleep.
C27_IntervalSleepAfterEveryTick ==
    /\ [][(Uninterrupted /\ spc = "inner" /\ spc' # "inner")
            => \/ spc' = "call" /\ ~success /\ now' = now
               \/ spc' = "post" /\ now' = now
                    /\ (success \/ retry_count > max_retries)
          ]_vars
    /\ [][(Uninterrupted /\ spc = "post")
            => /\ now' = now
               /\ IF max_collections = None
                        \/ collection_count < max_collections
                  THEN spc' = "interval_sleep"
                  ELSE spc' = "outer" /\ success
          ]_vars
    /\ [][(Uninterrupted /\ spc = "interval_sleep")
            => spc' = "outer" /\ now' = Elapse(now, IntervalTicks)]_vars
    /\ [][(Uninterrupted /\ spc = "outer")
            => /\ now' = now
               /\ \/ spc' = "inner" /\ ~success' /\ retry_count' = 0
                    /\ tickExec' = 0
                  \/ /\ spc' = "exit" /\ max_collections # None
                     /\ collection_count >= max_collections
          ]_vars
    /\ [][(Uninterrupted /\ on_error = "continue" /\ spc = "call"
            /\ cpc = "exc")
            => /\ spc' = "post" /\ now' = now
               /\ tickExec = 1 /\ tickExec' = 1
               /\ collection_count' = collection_count
          ]_vars
    /\ [](Running /\ on_error = "continue"
            => spc # "retry_sleep" /\ tickExec <= 1)

\* C27 witness: under 'continue' the first tick failed, an interval of one
\* minute was slept and the second tick's attempt is under way
C27_Witness ==
    /\ Running /\ on_error = "continue" /\ interval_minutes = 1
    /\ nTicks = 2 /\ nExec = 2 /\ tickExec = 1 /\ collection_count = 0
    /\ spc = "call" /\ now = MaxClock

OnceEnded == cpc \in {"ret", "exc"}
\* the query of this collect_once succeeded: df was assigned
QuerySucceeded == df # NoTable

\* C30 (as claimed): collect_once writes a snapshot if and only if the query
\* succeeded and save=True. (Stated for calls without callbacks whose write,
\* if any, the file system accepts.)
C30_WritesIffQueryOkAndSave ==
    (OnceEnded /\ callbacks = << >> /\ error # "OSError")
        => (saved_name # << >> <=> (QuerySucceeded /\ save))

\* C30: collect_once writes a snapshot only if the query succeeded and
\* save=True, and a collect_once that returns with save=True has written
\* exactly the snapshot of its table under its name; when the query raises,
\* that error reaches the caller, the table was never assigned (no
\* metadata, no callback), nothing was validated and the directory is as it
\* was; with save=False the directory is never changed.
C30_WritesOnlyIfQueryOkAndSave ==
    /\ [](OnceEnded =>
            /\ saved_name # << >> => (QuerySucceeded /\ save /\ cpc = "ret")
            /\ (cpc = "ret" /\ save)
                => /\ QuerySucceeded
                   /\ saved_name = <<dataset_name,
                                     strftime(collection_time,
                                              timestamp_format)>>
                   /\ disk = {x \in disk_before : x.name # saved_name}
                             \cup {[name |-> saved_name, table |-> df]}
            /\ (cpc = "exc" /\ ~QuerySucceeded)
                => /\ error \in ScannerErrors
                   /\ validated = NoTable /\ issues = {}
                   /\ disk = disk_before)
    /\ [](cpc # "idle" /\ ~save => disk = disk_before)
    /\ [][disk' # disk => cpc = "save" /\ save /\ cpc' = "ret"]_vars
    /\ [][(op = "once" /\ cpc = "exc")
            => outcome' = "raised" /\ error' = error /\ disk' = disk]_vars

\* C30 witness: a collect_once with save=True returned after its query
\* succeeded, and its snapshot is the one file of the directory
C30_Witness ==
    /\ op = "once" /\ cpc = "ret" /\ save /\ QuerySucceeded
    /\ disk = {[name |-> saved_name, table |-> df]}

\* a save into a sqlite store completes
SqliteSave == format = "sqlite" /\ save /\ cpc = "save" /\ cpc' = "ret"
\* the tables of a directory, each as its store and its name in the store
TablesOf(d) == {<<StorePath(x.name[1]), TableName(x.name)>> : x \in d}

\* C25 (as claimed): in the sqlite format all snapshots a collector saved
\* are tables of one shared store.
C25_OneSharedStore ==
    format = "sqlite"
        => \A x, y \in disk : StorePath(x.name[1]) = StorePath(y.name[1])

\* C25: in the sqlite format a save writes the table
\* {dataset_name}_{timestamp}, with "-" replaced by "_", into the store of
\* its dataset, {dataset_name}.db; every table of another name, in this
\* store or another, is kept as it was, the table of the identical name is
\* replaced, and different snapshots are different tables.
C25_TablePerSnapshotInDatasetStore ==
    /\ [][SqliteSave =>
            LET new == [name |-> saved_name', table |-> df] IN
            /\ saved_name' = <<dataset_name,
                               strftime(collection_time, timestamp_format)>>
            /\ <<StorePath(dataset_name),
                  <<Sanitized(dataset_name), saved_name'[2]>>>>
                    \in TablesOf(disk')
            /\ new \in disk'
            /\ \A x \in disk : x.name # new.name => x \in disk'
            /\ \A x \in disk' : x = new \/ (x \in disk /\ x.name # new.name)
          ]_vars
    /\ [](format = "sqlite"
            => Cardinality(TablesOf(disk)) = Cardinality(disk))

\* C25 witness: a sqlite collector's batch saved "eq" into eq.db and is
\* about to return from saving "fx-us" into fx-us.db as table fx_us_<time>
C25_Witness ==
    /\ format = "sqlite" /\ op = "batch" /\ cpc = "ret"
    /\ dataset_name = "fx-us"
    /\ TablesOf(disk) = {<<<<"eq", "db">>, <<"eq", <<0, 0>>>>>>,
                         <<<<"fx-us", "db">>, <<"fx_us", saved_name[2]>>>>}

\* C24: validation leaves the table as it was and goes on to the save,
\* whatever it found; from line 151 to the return the table never changes,
\* and collect_once ends as the table, save and the format alone decide,
\* with validate_data set or not: with save=True on a supported format it
\* returns once the snapshot of that table is in the directory, with
\* save=False it returns with the directory untouched, and it raises only
\* where the save does.
C24_ValidationIsAdvisory ==
    /\ [][cpc = "validate"
            => /\ cpc' = "save" /\ df' = df /\ disk' = disk
               /\ error' = error /\ outcome' = outcome
          ]_vars
    /\ [][df' = df]_vars
    /\ [](cpc = "ret" \/ outcome = "returned"
            => /\ error = "none"
               /\ disk = IF save
                         THEN {[name |-> <<dataset_name,
                                          strftime(collection_time,
                                                   timestamp_format)>>,
                                table |-> df]}
                         ELSE {})
    /\ [](cpc = "exc" \/ outcome = "raised"
            => save /\ error \in {"OSError", "ValueError"} /\ disk = {})
    /\ [](error = "ValueError" => format \notin SupportedFormats)

\* C24 witness: an empty table was validated and reported, and collect_once
\* returned it after saving it
C24_Witness ==
    /\ outcome = "returned" /\ validate_data /\ save
    /\ "empty" \in issues /\ validated = df /\ df.rows = 0
    /\ disk = {[name |-> saved_name, table |-> df]}

\* C22 (as claimed): every file load_historical_data finds under a
\* snapshot's name holds the whole snapshot, also while a save is under way.
C22_ReaderSeesOnlyCompleteSnapshots ==
    \A i \in 1..Len(files) : Complete(files[i])

\* the universe setter called last on the Query
LastCall == universe_calls[Len(universe_calls)]

\* C26: a Query never has a market and a ticker list in effect together;
\* after any sequence of set_markets and set_tickers calls its universe is
\* the one the last call set, the other kind being cleared; before any call
\* it has none.
C26_UniverseLastWriterWins ==
    /\ ~(universe.market # "none" /\ universe.tickers # << >>)
    /\ universe_calls = << >> => universe = NoUniverse
    /\ universe_calls # << >>
        => IF LastCall.op = "set_markets"
           THEN universe.market = LastCall.arg /\ universe.tickers = << >>
           ELSE universe.tickers = LastCall.arg /\ universe.market = "none"

\* C26 witness: a market was set, then explicit tickers: only the tickers
\* are in effect
C26_Witness ==
    /\ Len(universe_calls) = 2
    /\ universe_calls[1].op = "set_markets"
    /\ universe_calls[2].op = "set_tickers"
    /\ universe = [market |-> "none", tickers |-> universe_calls[2].arg]

\* C31: once the query has answered, the table of collect_once holds the
\* metadata columns exactly when add_collection_metadata is set, and their
\* one value per column is the collection time, its epoch in whole seconds
\* and the dataset name; the collection time is the clock at the start of
\* the call, not later than the query's answer; a snapshot saved is named
\* by that same collection time and holds these columns.
C31_MetadataIsCollectionTime ==
    (cpc # "idle" /\ QuerySucceeded)
        => /\ df.meta = IF add_collection_metadata
                        THEN <<collection_time,
                               collection_time \div TicksPerSecond,
                               dataset_name>>
                        ELSE << >>
           /\ Len(Columns(df)) = Len(df.cols)
                                 + (IF add_collection_metadata THEN 3 ELSE 0)
           /\ collection_time = call_start /\ collection_time <= now
           /\ saved_name # << >>
                => /\ saved_name = <<dataset_name,
                                     strftime(collection_time,
                                              timestamp_format)>>
                   /\ [name |-> saved_name, table |-> df] \in disk

\* C31 witness: a stamped table was saved after the clock had moved on
\* from the collection time, which was itself past the first second
C31_Witness ==
    /\ cpc = "ret" /\ save /\ add_collection_metadata
    /\ collection_time = TicksPerSecond /\ now > collection_time
    /\ [name |-> saved_name, table |-> df] \in disk
    /\ df.meta = <<collection_time, 1, dataset_name>>

\* C32: with add_collection_metadata and validate_data both set, the
\* validation of a table that still holds its metadata columns always
\* reports constant columns, so it never passes.
C32_StampedTableNeverPasses ==
    (cpc # "validate" /\ validate_data /\ add_collection_metadata
        /\ df.meta # << >>)
        => (validated = df /\ "constant" \in issues)

\* C32 witness: a stamped table whose data has no defect was validated and
\* the constant columns are its only finding
C32_Witness ==
    /\ cpc = "save" /\ validate_data /\ add_collection_metadata
    /\ df.rows = MaxRows /\ df.dups = 0 /\ Len(df.cols) = 2
    /\ \A i \in 1..Len(df.cols) :
            df.cols[i].nulls = 0 /\ df.cols[i].distinct = MaxRows
    /\ issues = {"constant"}

\* C33 (as claimed): load_historical_data returns a list with combine=False
\* and one table with combine=True, under every format; when nothing
\* matches, the list or the table is empty. (Stated for the calls that find
\* nothing to read.)
C33_ReturnShapeFollowsCombine ==
    (lpc = "done" /\ read_log = << >>)
        => /\ loaded.kind = IF combine THEN "table" ELSE "list"
           /\ loaded.parts = << >>

\* the date range of the call holds the timestamp of every file of the
\* dataset whose name parses
WideRange ==
    /\ start_date # None /\ end_date # None
    /\ SnapshotsOf(disk, load_dataset) # {}
    /\ \A x \in SnapshotsOf(disk, load_dataset) :
        /\ start_date <= strptime(x.name[2], timestamp_format)
        /\ strptime(x.name[2], timestamp_format) <= end_date

\* C34 (as claimed): a call with a date range that holds every snapshot
\* timestamp finds the files the call without a date range finds.
C34_WideRangeIsNoRange ==
    (lpc = "read" /\ read_log = << >> /\ WideRange)
        => Range(files) = Matching(disk, load_dataset, None, None)

\* the collector was constructed with a format _save_data does not know
Unsupported == format = "feather"

\* C35: the format never changes after construction, and construction
\* takes an unsupported one; with it a collect_once that is to save reaches
\* the save only after its query answered, the save raises ValueError and
\* writes nothing, so the directory stays empty; in schedule_collection the
\* handler treats that error as any other: 'stop' re-raises it, 'retry'
\* sleeps and re-attempts while retries are left, otherwise the tick is
\* given up, and the failed attempt is never counted as a collection.
C35_UnsupportedFormatFailsAtSave ==
    /\ [][format' = format]_vars
    /\ [](Unsupported => /\ disk = {} /\ saved_name = << >>
                          /\ cpc = "ret" => ~save
                          /\ collection_count = 0 /\ results = {})
    /\ [][(Unsupported /\ cpc = "save" /\ save /\ ~interrupted')
            => /\ QuerySucceeded
               /\ cpc' = "exc" /\ error' = "ValueError" /\ disk' = disk
          ]_vars
    /\ [][(Unsupported /\ Uninterrupted /\ spc = "call" /\ cpc = "exc")
            => /\ retry_count' = retry_count + 1
               /\ on_error = "stop"
                    => outcome' = "raised" /\ error' = error /\ ~Running'
               /\ on_error = "continue" => spc' = "post" /\ now' = now
               /\ on_error = "retry"
                    => spc' = IF retry_count' <= max_retries
                              THEN "retry_sleep" ELSE "post"
          ]_vars

\* C35 witness: under 'retry' the save of an unsupported format failed with
\* ValueError in the first attempt and the second attempt has reached its
\* save as well
C35_Witness ==
    /\ Unsupported /\ Running /\ on_error = "retry"
    /\ retry_count = 1 /\ tickExec = 2 /\ cpc = "save" /\ QuerySucceeded

\* C36 (as claimed): _normalize_timeframe maps every key of TIMEFRAMES,
\* given in any letter case, to its TradingView value, leaves every other
\* timeframe unchanged and is idempotent; the default columns of
\* scan_symbols carry the mapped value as their suffix.
C36_NormalizesAnyCase ==
    tf # << >> =>
        /\ \A e \in TIMEFRAMES :
              lower(timeframe) = lower(e.key) => tf = e.value
        /\ (\A e \in TIMEFRAMES : lower(timeframe) # lower(e.key))
              => tf = timeframe
        /\ normalize_timeframe(tf) = tf
        /\ scan_columns # << >> =>
              /\ Len(scan_columns) = Len(TimeframeFields) + 2
              /\ scan_columns[1] = <<"name">>
              /\ scan_columns[2] = <<"description">>
              /\ \A i \in DOMAIN TimeframeFields :
                    scan_columns[i + 2] = <<TimeframeFields[i], "|">> \o tf

\* C37 (as claimed): scan_all_markets returns results for forex,
\* commodities, indices and bonds, and also a stocks result when
\* include_stocks is set and a crypto result when include_crypto is set.
C37_FlagsAddMarkets ==
    mpc = "ret" =>
        DOMAIN market_results =
            {"forex", "commodities", "indices", "bonds"}
                \cup (IF include_stocks THEN {"stocks"} ELSE {})
                \cup (IF include_crypto THEN {"crypto"} ELSE {})

\* C38 (as claimed): while auto-scan is enabled a scan is executed once per
\* refresh interval, without the user pressing 'Run Scan Now': whenever the
\* script is back at its sleep, every interval that has elapsed with
\* auto-scan on has added a scan to scan_history and filled scan_data.
C38_AutoScanScansEachInterval ==
    (apc = "sleep" /\ nClicks = 0) =>
        /\ Len(scan_history) = nElapsed
        /\ nElapsed > 0 => scan_data # NoTable

====
